---- MODULE Spec2Model ----
(***************************************************************************)
(* A model of node-usbmuxd (src/src/usbmuxd.ts): the process-wide state    *)
(* (_listener_map, _devices, _watching, _use_tag, _proto_version), the     *)
(* synchronous subscription API and the asynchronous device listing,       *)
(* split at its await points so that concurrent listings interleave.       *)
(***************************************************************************)
EXTENDS Integers, Sequences, FiniteSets, TLC

\* ------------------------------------------------------------------ bounds
\* subscriptions handed out in one run
MaxSubs == 2
\* values the tag counter may reach before no further socket connects
MaxTag == 5
\* entries in a DeviceList answer
MaxList == 2

\* the usbmuxd_get_device_list calls that may be pending at once
CallIds == {"c1", "c2"}

\* --------------------------------------------------------------- constants
RESULT_OK == 0
RESULT_BADCOMMAND == 1
RESULT_BADDEV == 2
RESULT_CONNREFUSED == 3
RESULT_BADVERSION == 6

MESSAGE_LISTEN == 3
MESSAGE_DEVICE_ADD == 4
MESSAGE_DEVICE_REMOVE == 5
MESSAGE_DEVICE_PAIRED == 6
MESSAGE_PLIST == 8

CONNECTION_TYPE_USB == 1
CONNECTION_TYPE_NETWORK == 2

UE_DEVICE_ADD == 1
UE_DEVICE_REMOVE == 2

PLIST_LIBUSBMUX_VERSION == 3
PACKAGE == "libusbmuxd"

\* UsbmuxdErrno is imported from ./usbmuxd_errno; POSIX values
EPERM == 1
ENOENT == 2
EINVAL == 22

\* 4 (uint32_t) * 4
header_byte_length == 16

\* ------------------------------------------------------------ plist values
\* A property value: its runtime type, and its number or text.
PlNumber(n) == [t |-> "number", n |-> n, s |-> ""]
PlString(s) == [t |-> "string", n |-> 0, s |-> s]
PlData(s) == [t |-> "data", n |-> 0, s |-> s]
PlAbsent == [t |-> "undefined", n |-> 0, s |-> ""]
\* the number NaN, as a <real> element may decode to
PlNaN == [t |-> "number", n |-> 0, s |-> "NaN"]

\* x !== null && typeof x === "number" && !isNaN(x)
isNumber(x) == x.t = "number" /\ x # PlNaN
isString(x) == x.t = "string"

PlistUsb ==
    [DeviceID |-> PlNumber(1), ProductID |-> PlNumber(7),
     SerialNumber |-> PlString("udidA"), ConnectionType |-> PlString("USB"),
     NetworkAddress |-> PlAbsent]
PlistNet ==
    [DeviceID |-> PlNumber(2), ProductID |-> PlNumber(7),
     SerialNumber |-> PlString("udidA"), ConnectionType |-> PlString("Network"),
     NetworkAddress |-> PlData("addr")]
PlistNoSerial ==
    [DeviceID |-> PlNumber(3), ProductID |-> PlNumber(7),
     SerialNumber |-> PlAbsent, ConnectionType |-> PlString("USB"),
     NetworkAddress |-> PlAbsent]

\* the device records the daemon may describe in a DeviceList answer
PlistRecords == {PlistUsb, PlistNet, PlistNoSerial}

NoDevice ==
    [handle |-> 0, product_id |-> 0, udid |-> "", conn_type |-> 0, conn_data |-> ""]

\* device_info_accepts without the test of NetworkAddress
device_info_accepts_any_address(props) ==
    /\ isNumber(props.DeviceID)
    /\ isNumber(props.ProductID)
    /\ isString(props.SerialNumber)
    /\ props.ConnectionType \in {PlString("USB"), PlString("Network")}

\* success, after the five tests of the properties
device_info_accepts(props) ==
    /\ isNumber(props.DeviceID)
    /\ isNumber(props.ProductID)
    /\ isString(props.SerialNumber)
    /\ props.ConnectionType \in {PlString("USB"), PlString("Network")}
    /\ (props.ConnectionType = PlString("Network") => props.NetworkAddress.t = "data")

\* NoDevice stands for the undefined the function returns on failure
device_info_from_plist(props) ==
    IF ~device_info_accepts(props) THEN NoDevice
    ELSE [handle |-> props.DeviceID.n,
          product_id |-> props.ProductID.n,
          udid |-> props.SerialNumber.s,
          conn_type |-> IF props.ConnectionType = PlString("Network")
                        THEN CONNECTION_TYPE_NETWORK ELSE CONNECTION_TYPE_USB,
          conn_data |-> IF props.ConnectionType = PlString("Network")
                        THEN props.NetworkAddress.s ELSE ""]

\* ---------------------------------------------------------- subscriptions
Callbacks == {"cb1", "cb2"}
UserData == {"ud1", "ud2"}
\* the (callback, user_data) pairs the client subscribes with
Subscribers == {<<"cb1", "ud1">>, <<"cb2", "ud2">>}
\* handle 0 is an object usbmuxd_events_subscribe never returned
Handles == 0 .. MaxSubs

\* reading user_data off the opaque handle object {} yields undefined
Undefined == "undefined"

\* The program's state, then what the last step did towards the outside:
\* delivered (the callback invocations), last (the subscription call made and
\* its return value), wire (the write issued on a socket), exchanged (what an
\* exchange on a socket resolved with) and settled (the listing promise
\* resolved); added keeps, per registered subscription, the devices delivered
\* to it in ADD events. Where the daemon is held steady, daemon says whether
\* it speaks the plist protocol and which device records are attached at it,
\* and returned is the list the latest listing before this step resolved with.
\* Where device_info_from_plist is looked at by itself, parsed holds the
\* properties it is given and what it returned for them.
VARIABLES _listener_map, _devices, _watching, _use_tag, _proto_version,
          next_handle, calls, delivered, last, wire, exchanged, settled, added,
          daemon, returned, parsed

vars == <<_listener_map, _devices, _watching, _use_tag, _proto_version,
          next_handle, calls, delivered, last, wire, exchanged, settled, added,
          daemon, returned, parsed>>

\* ------------------------------------------------------------ step outputs
NoFrame == [length |-> 0, version |-> 0, message |-> 0, tag |-> 0]

\* a write issued on a socket: the 16-byte header, or the payload bytes
NoWrite == [kind |-> "none", header |-> NoFrame, bytes |-> 0]
HeaderWrite(header) == [kind |-> "header", header |-> header, bytes |-> 16]
PayloadWrite(n) == [kind |-> "payload", header |-> NoFrame, bytes |-> n]

\* what a listing call resolves with: a number or a device list
Pending == [kind |-> "pending", code |-> 0, list |-> <<>>]
Code(n) == [kind |-> "code", code |-> n, list |-> <<>>]
List(l) == [kind |-> "list", code |-> 0, list |-> l]

NotSettled == [call |-> "none", value |-> Pending]
Settled(c, value) == [call |-> c, value |-> value]

\* a call of the public API other than a listing: its arguments, what it
\* returned and whether it threw instead of returning
NoOp == [op |-> "none", h |-> 0, udid |-> "", ret |-> 0, threw |-> FALSE]
Returned(op, h, ret) == [op |-> op, h |-> h, udid |-> "", ret |-> ret, threw |-> FALSE]

\* what an exchange on the socket resolves with
Num(n) == [kind |-> "number", code |-> n, isArray |-> FALSE, DeviceList |-> <<>>]
Void == [kind |-> "void", code |-> 0, isArray |-> FALSE, DeviceList |-> <<>>]
Plist(isArray, l) == [kind |-> "plist", code |-> 0, isArray |-> isArray, DeviceList |-> l]

\* what await socket_receive_data yields
NoData == [kind |-> "none", message |-> 0, info |-> NoDevice, handle |-> 0]

\* the bytes a "data" event hands over: how many they are, and the length the
\* frame they begin declares in its header
NoChunk == [byteLength |-> 0, length |-> 0]
Chunk(n, length) == [byteLength |-> n, length |-> length]

\* the call whose exchange resolved, and with what kind of value: malformed
\* says that a device record in it is one device_info_from_plist rejects, sfd
\* is the socket as socket_send_data leaves it, recv the bytes that resolved it
NoExchange ==
    [call |-> "none", kind |-> "none", code |-> 0, malformed |-> FALSE,
     data |-> NoData, sfd |-> "none", recv |-> NoChunk]
Exchanged(c, result) ==
    [call |-> c, kind |-> result.kind, code |-> result.code,
     malformed |-> /\ result.isArray
                   /\ \E i \in DOMAIN result.DeviceList :
                         device_info_from_plist(result.DeviceList[i]) = NoDevice,
     data |-> NoData, sfd |-> "open", recv |-> NoChunk]

\* resolve(-EPERM) after a write failed, the socket of the call as it is then
SendFailed(c, call) == [Exchanged(c, Num(-EPERM)) EXCEPT !.sfd = call.sfd]

\* resolve(...) in on_data_received, whatever recv_data holds
DataReceived(c, result, recv_data) == [Exchanged(c, result) EXCEPT !.recv = recv_data]

\* the properties device_info_from_plist is given, whether it has returned,
\* and what: undefined, or the device_info it made
NotParsed == [props |-> PlistUsb, returned |-> FALSE, undefined |-> FALSE,
              device_info |-> NoDevice]

\* a subscription call touches no socket and settles no listing
NoSocketStep ==
    /\ wire' = NoWrite
    /\ exchanged' = NoExchange
    /\ settled' = NotSettled
    /\ UNCHANGED <<daemon, returned, parsed>>

\* ------------------------------------------------------------ event replay
Event(callback, event, device, user_data) ==
    [cb |-> callback, event |-> event, device |-> device, user_data |-> user_data]

\* the property user_data read off the handle object, which is a bare {}
handle_user_data(context) == Undefined

\* add_replay with the loop starting one device too late
add_replay_skips_first(context) ==
    [i \in 1 .. Len(_devices) - 1 |->
        Event(context.callback, UE_DEVICE_ADD, _devices[i + 1], context.user_data)]

\* for (const device of _devices) context.callback({ADD, device}, context.user_data)
add_replay(context) ==
    [i \in 1 .. Len(_devices) |->
        Event(context.callback, UE_DEVICE_ADD, _devices[i], context.user_data)]

\* for (const device of _devices)
\*   registered_context.callback({REMOVE, device}, context.user_data)
remove_replay(registered_context, context) ==
    [i \in 1 .. Len(_devices) |->
        Event(registered_context.callback, UE_DEVICE_REMOVE, _devices[i],
              handle_user_data(context))]

EventDevices(events) == [i \in 1 .. Len(events) |-> events[i].device]

map_set(m, k, v) == [x \in (DOMAIN m) \cup {k} |-> IF x = k THEN v ELSE m[x]]
\* map_delete as _listener_map.clear()
map_delete_all(m, k) == [x \in {} |-> m[x]]

map_delete(m, k) == [x \in (DOMAIN m) \ {k} |-> m[x]]

usbmuxd_events_subscribe(callback, user_data) ==
    /\ next_handle <= MaxSubs
    /\ LET context == [callback |-> callback, user_data |-> user_data]
           context_handle == next_handle
           events == IF ~_watching THEN <<>> ELSE add_replay(context)
       IN /\ _listener_map' = map_set(_listener_map, context_handle, context)
          /\ delivered' = events
          /\ added' = [added EXCEPT ![context_handle] = EventDevices(events)]
          /\ last' = Returned("subscribe", context_handle, context_handle)
          /\ next_handle' = next_handle + 1
    /\ NoSocketStep
    /\ UNCHANGED <<_devices, _watching, _use_tag, _proto_version, calls>>

\* usbmuxd_events_unsubscribe reporting success for a handle it does not know
unsubscribe_unknown_ok(context) ==
    /\ IF context \notin DOMAIN _listener_map
       THEN /\ last' = Returned("unsubscribe", context, 0)
            /\ delivered' = <<>>
            /\ UNCHANGED <<_listener_map, added>>
       ELSE /\ delivered' = remove_replay(_listener_map[context], context)
            /\ _listener_map' = map_delete(_listener_map, context)
            /\ last' = Returned("unsubscribe", context, 0)
            /\ added' = [added EXCEPT ![context] = <<>>]
    /\ NoSocketStep
    /\ UNCHANGED <<_devices, _watching, _use_tag, _proto_version, next_handle, calls>>

usbmuxd_events_unsubscribe(context) ==
    /\ IF context \notin DOMAIN _listener_map
       THEN /\ last' = Returned("unsubscribe", context, -EINVAL)
            /\ delivered' = <<>>
            /\ UNCHANGED <<_listener_map, added>>
       ELSE /\ delivered' = remove_replay(_listener_map[context], context)
            /\ _listener_map' = map_delete(_listener_map, context)
            /\ last' = Returned("unsubscribe", context, 0)
            /\ added' = [added EXCEPT ![context] = <<>>]
    /\ NoSocketStep
    /\ UNCHANGED <<_devices, _watching, _use_tag, _proto_version, next_handle, calls>>

\* ------------------------------------------------------- listing: values
\* the sequences over S of at most n elements, none twice
SeqsUpTo(S, n) ==
    {q \in UNION {[1 .. k -> S] : k \in 0 .. n} :
        \A i, j \in DOMAIN q : i # j => q[i] # q[j]}

ResultCodes ==
    {RESULT_OK, RESULT_BADCOMMAND, RESULT_BADDEV, RESULT_CONNREFUSED, RESULT_BADVERSION}

\* the answers to a ListDevices request: a result code, the bare resolve() of
\* socket_send_data, or a parsed document with or without a DeviceList array
ListDevicesAnswers ==
    {Num(n) : n \in ResultCodes} \cup {Void, Plist(FALSE, <<>>)}
        \cup {Plist(TRUE, l) : l \in SeqsUpTo(PlistRecords, MaxList)}

\* the answers to a Listen request
ListenAnswers == {Num(n) : n \in ResultCodes} \cup {Void}

create_plist_message(message_type) ==
    [ClientVersionString |-> PACKAGE, MessageType |-> message_type,
     kLibUSBMuxVersion |-> PLIST_LIBUSBMUX_VERSION]

\* the encoded document, one element per encoded entry
plist_build(plist_object) ==
    <<plist_object.ClientVersionString, plist_object.MessageType,
      plist_object.kLibUSBMuxVersion>>

byteLength(data) == Len(data)

\* usbmuxd_header with the payload's length alone in the length field
usbmuxd_header_payload_length(message, tag, data) ==
    [length |-> byteLength(data), version |-> _proto_version,
     message |-> message, tag |-> tag]

\* the header socket_send_data writes
usbmuxd_header(message, tag, data) ==
    [length |-> header_byte_length + byteLength(data), version |-> _proto_version,
     message |-> message, tag |-> tag]

\* a call of usbmuxd_get_device_list: where it is suspended, the request in
\* flight and its payload, its socket sfd, the socket it held before a retry,
\* and its device_list
IdleCall ==
    [pc |-> "idle", op |-> "none", sfd |-> "none", prev |-> "none",
     data |-> <<>>, device_list |-> <<>>]

\* the list the latest listing resolved with, kept where the daemon is steady
Untracked == [kind |-> "untracked", code |-> 0, list |-> <<>>]
Remember ==
    returned' = IF returned # Untracked /\ settled.value.kind = "list"
                THEN settled.value ELSE returned

\* a listing step invokes no callback and is no subscription call
Quiet ==
    /\ delivered' = <<>>
    /\ last' = NoOp
    /\ Remember
    /\ UNCHANGED <<_listener_map, _watching, next_handle, added, daemon, parsed>>

\* ------------------------------------------------------ listing: the steps
\* createConnection(USBMUXD_SOCKET_FILE), then await; sfd is overwritten
connect_usbmuxd_socket(call) ==
    [call EXCEPT !.pc = "connect", !.op = "none", !.sfd = "connecting",
                 !.prev = call.sfd, !.data = <<>>]

\* sfd.destroy()
destroy(call) == [call EXCEPT !.sfd = "destroyed"]

\* resolve(value) of the promise usbmuxd_get_device_list returned
resolve(call) == [call EXCEPT !.pc = "resolved"]

\* socket_send_data up to the await of the header write
socket_send_data(c, message, tag, data) ==
    /\ calls' = [calls EXCEPT ![c] =
            [calls[c] EXCEPT !.pc = "header", !.sfd = "open", !.data = data,
                                !.op = IF message = MESSAGE_PLIST
                                       THEN data[2] ELSE "Listen"]]
    /\ wire' = HeaderWrite(usbmuxd_header(message, tag, data))

socket_send_plist(c, tag, plist_object) ==
    socket_send_data(c, MESSAGE_PLIST, tag, plist_build(plist_object))

socket_list_devices(c, tag) ==
    socket_send_plist(c, tag, create_plist_message("ListDevices"))

\* socket_listen without the test of _proto_version
socket_listen_always_plist(c, tag) ==
    socket_send_plist(c, tag, create_plist_message("Listen"))

socket_listen(c, tag) ==
    IF _proto_version = 1
    THEN socket_send_plist(c, tag, create_plist_message("Listen"))
    ELSE socket_send_data(c, MESSAGE_LISTEN, tag, <<>>)

\* a new call: the promise executor runs connect_and_list_devices to its await
usbmuxd_get_device_list(c) ==
    /\ calls[c].pc \in {"idle", "resolved"}
    /\ calls' = [calls EXCEPT ![c] = connect_usbmuxd_socket(IdleCall)]
    /\ wire' = NoWrite
    /\ exchanged' = NoExchange
    /\ settled' = NotSettled
    /\ UNCHANGED <<_devices, _use_tag, _proto_version>>
    /\ Quiet

\* connect_usbmuxd_socket resolved with a number
ConnectFailed(c, n) ==
    [call |-> c, kind |-> "error", code |-> n, malformed |-> FALSE,
     data |-> NoData, sfd |-> "failed", recv |-> NoChunk]

\* connect_error connecting again instead of resolving the call
connect_error_retries(c) ==
    /\ calls[c].pc = "connect"
    /\ calls' = [calls EXCEPT ![c] =
            connect_usbmuxd_socket([calls[c] EXCEPT !.sfd = "failed"])]
    /\ settled' = NotSettled
    /\ wire' = NoWrite
    /\ exchanged' = ConnectFailed(c, -ENOENT)
    /\ UNCHANGED <<_devices, _use_tag, _proto_version>>
    /\ Quiet

\* the socket's "error" event: resolve(-ENOENT), which the call resolves with
connect_error(c) ==
    /\ calls[c].pc = "connect"
    /\ calls' = [calls EXCEPT ![c] = resolve([calls[c] EXCEPT !.sfd = "failed"])]
    /\ settled' = Settled(c, Code(-ENOENT))
    /\ wire' = NoWrite
    /\ exchanged' = ConnectFailed(c, -ENOENT)
    /\ UNCHANGED <<_devices, _use_tag, _proto_version>>
    /\ Quiet

\* connect_and_list_devices sending with the counter's value, not incremented
connect_and_list_devices_reuses_tag(c) ==
    /\ calls[c].pc = "connect"
    /\ IF _proto_version = 1
       THEN socket_list_devices(c, _use_tag)
       ELSE socket_listen(c, _use_tag)
    /\ exchanged' = NoExchange
    /\ settled' = NotSettled
    /\ UNCHANGED <<_devices, _proto_version, _use_tag>>
    /\ Quiet

\* the socket's "connect" event: draw the tag and send the request
connect_and_list_devices(c) ==
    /\ calls[c].pc = "connect"
    /\ _use_tag + (IF _proto_version = 1 THEN 1 ELSE 2) <= MaxTag
    /\ IF _proto_version = 1
       THEN /\ _use_tag' = _use_tag + 1
            /\ socket_list_devices(c, _use_tag + 1)
       ELSE /\ _use_tag' = _use_tag + 2
            /\ socket_listen(c, _use_tag + 2)
    /\ exchanged' = NoExchange
    /\ settled' = NotSettled
    /\ UNCHANGED <<_devices, _proto_version>>
    /\ Quiet

\* _devices.push(...device_list) without the _devices.splice(0) before it
push_only(device_list) == _devices \o device_list

\* _devices.splice(0); _devices.push(...device_list)
splice_and_push(device_list) == device_list

\* downgrade without the test for RESULT_BADVERSION
downgrade_on_any_number(lsdev_result) == 0

\* if (lsdev_result == RESULT_BADVERSION) _proto_version = 0
downgrade_on_badversion(lsdev_result) ==
    IF lsdev_result.code = RESULT_BADVERSION THEN 0 ELSE _proto_version

\* the continuation after await socket_list_devices(sfd, tag)
after_list_devices(c, call, lsdev_result) ==
    IF lsdev_result.kind = "number"
    THEN /\ _proto_version' = downgrade_on_badversion(lsdev_result)
         /\ calls' = [calls EXCEPT ![c] = connect_usbmuxd_socket(destroy(call))]
         /\ settled' = NotSettled
         /\ UNCHANGED _devices
    ELSE IF lsdev_result.kind = "void"
    THEN \* lsdev_result.DeviceList of undefined throws; nothing catches it
         /\ calls' = [calls EXCEPT ![c] = [call EXCEPT !.pc = "thrown"]]
         /\ settled' = NotSettled
         /\ UNCHANGED <<_devices, _proto_version>>
    ELSE LET plist_devlist ==
                 IF lsdev_result.isArray THEN lsdev_result.DeviceList ELSE <<>>
             device_list ==
                 [i \in 1 .. Len(plist_devlist) |->
                     device_info_from_plist(plist_devlist[i])]
         IN IF \E i \in 1 .. Len(device_list) : device_list[i] = NoDevice
            THEN /\ calls' = [calls EXCEPT ![c] = resolve(destroy(call))]
                 /\ settled' = Settled(c, Code(-EPERM))
                 /\ UNCHANGED <<_devices, _proto_version>>
            ELSE /\ _devices' = splice_and_push(device_list)
                 /\ calls' = [calls EXCEPT ![c] = resolve(destroy(call))]
                 /\ settled' = Settled(c, List(device_list))
                 /\ UNCHANGED _proto_version

\* after_listen retrying on RESULT_BADVERSION whatever the version is
after_listen_retries(c, call, listen_result) ==
    IF listen_result.kind = "number"
    THEN IF listen_result.code = RESULT_BADVERSION
         THEN /\ _proto_version' = 0
              /\ calls' = [calls EXCEPT ![c] = connect_usbmuxd_socket(destroy(call))]
              /\ settled' = NotSettled
              /\ UNCHANGED _devices
         ELSE /\ calls' = [calls EXCEPT ![c] = resolve(destroy(call))]
              /\ settled' = Settled(c, Code(listen_result.code))
              /\ UNCHANGED <<_devices, _proto_version>>
    ELSE /\ calls' = [calls EXCEPT ![c] =
                [call EXCEPT !.pc = "receive", !.device_list = <<>>]]
         /\ settled' = NotSettled
         /\ UNCHANGED <<_devices, _proto_version>>

\* the continuation after await socket_listen(sfd, tag)
after_listen(c, call, listen_result) ==
    IF listen_result.kind = "number"
    THEN IF listen_result.code = RESULT_BADVERSION /\ _proto_version = 1
         THEN /\ _proto_version' = 0
              /\ calls' = [calls EXCEPT ![c] = connect_usbmuxd_socket(destroy(call))]
              /\ settled' = NotSettled
              /\ UNCHANGED _devices
         ELSE /\ calls' = [calls EXCEPT ![c] = resolve(destroy(call))]
              /\ settled' = Settled(c, Code(listen_result.code))
              /\ UNCHANGED <<_devices, _proto_version>>
    ELSE /\ calls' = [calls EXCEPT ![c] =
                [call EXCEPT !.pc = "receive", !.device_list = <<>>]]
         /\ settled' = NotSettled
         /\ UNCHANGED <<_devices, _proto_version>>

\* back in connect_and_list_devices with what the exchange resolved with
after_send(c, call, result) ==
    IF call.op = "ListDevices"
    THEN after_list_devices(c, call, result)
    ELSE after_listen(c, call, result)

\* the header write completes: a failure resolves -EPERM, the socket left as
\* it is; otherwise the payload, if any, is written
header_sent(c, ok) ==
    /\ calls[c].pc = "header"
    /\ IF ~ok
       THEN /\ after_send(c, calls[c], Num(-EPERM))
            /\ exchanged' = SendFailed(c, calls[c])
            /\ wire' = NoWrite
       ELSE /\ IF byteLength(calls[c].data) > 0
               THEN /\ calls' = [calls EXCEPT ![c].pc = "payload"]
                    /\ wire' = PayloadWrite(byteLength(calls[c].data))
               ELSE /\ calls' = [calls EXCEPT ![c].pc = "response"]
                    /\ wire' = NoWrite
            /\ exchanged' = NoExchange
            /\ settled' = NotSettled
            /\ UNCHANGED <<_devices, _proto_version>>
    /\ UNCHANGED _use_tag
    /\ Quiet

\* payload_sent resolving -EPERM without sfd.destroy()
payload_sent_no_destroy(c, ok) ==
    /\ calls[c].pc = "payload"
    /\ IF ~ok
       THEN /\ after_send(c, calls[c], Num(-EPERM))
            /\ exchanged' = SendFailed(c, calls[c])
       ELSE /\ calls' = [calls EXCEPT ![c].pc = "response"]
            /\ exchanged' = NoExchange
            /\ settled' = NotSettled
            /\ UNCHANGED <<_devices, _proto_version>>
    /\ wire' = NoWrite
    /\ UNCHANGED _use_tag
    /\ Quiet

\* the payload write completes: a failure destroys the socket and resolves -EPERM
payload_sent(c, ok) ==
    /\ calls[c].pc = "payload"
    /\ IF ~ok
       THEN /\ after_send(c, destroy(calls[c]), Num(-EPERM))
            /\ exchanged' = SendFailed(c, destroy(calls[c]))
       ELSE /\ calls' = [calls EXCEPT ![c].pc = "response"]
            /\ exchanged' = NoExchange
            /\ settled' = NotSettled
            /\ UNCHANGED <<_devices, _proto_version>>
    /\ wire' = NoWrite
    /\ UNCHANGED _use_tag
    /\ Quiet

\* the frame a response is, in bytes: its header and a payload
FrameLength == header_byte_length + 4

\* what recv_data may hold when the exchange resolves with the answer: for the
\* bare resolve() any first bytes of the frame, for a decoded answer all of it
RecvData(answer) ==
    IF answer.kind = "void"
    THEN {Chunk(FrameLength, FrameLength), Chunk(header_byte_length, FrameLength),
          Chunk(header_byte_length \div 2, FrameLength)}
    ELSE {Chunk(FrameLength, FrameLength)}

\* the socket's "data" event resolves the exchange
on_data_received(c, answer) ==
    /\ calls[c].pc = "response"
    /\ answer \in (IF calls[c].op = "ListDevices"
                   THEN ListDevicesAnswers ELSE ListenAnswers)
    /\ after_send(c, calls[c], answer)
    /\ \E recv_data \in RecvData(answer) :
          exchanged' = DataReceived(c, answer, recv_data)
    /\ wire' = NoWrite
    /\ UNCHANGED _use_tag
    /\ Quiet

\* ---------------------------------------------------- listing: the drain
\* the well-formed devices a DEVICE_ADD frame may announce
Devices == {device_info_from_plist(PlistUsb), device_info_from_plist(PlistNet)}

Throws == [kind |-> "throw", message |-> 0, info |-> NoDevice, handle |-> 0]
TimedOut == [kind |-> "number", message |-> 0, info |-> NoDevice, handle |-> 0]
Frame(message, info, handle) ==
    [kind |-> "frame", message |-> message, info |-> info, handle |-> handle]

\* what await socket_receive_data(sfd, 100) yields: the throw of the function
\* as written, a number when no frame came in time, or a frame; info is what
\* device_info_from_data makes of the frame's body
ReceiveResults ==
    {Throws, TimedOut, Frame(MESSAGE_DEVICE_PAIRED, NoDevice, 0)}
        \cup {Frame(MESSAGE_DEVICE_ADD, d, 0) : d \in Devices \cup {NoDevice}}
        \cup {Frame(MESSAGE_DEVICE_REMOVE, NoDevice, d.handle) : d \in Devices}

\* the call that received, and what: malformed says that the frame announces
\* a device device_info_from_data makes no record of
Received(c, data) ==
    [call |-> c, kind |-> "receive", code |-> 0,
     malformed |-> /\ data.kind = "frame"
                   /\ data.message = MESSAGE_DEVICE_ADD
                   /\ data.info = NoDevice,
     data |-> data, sfd |-> "open", recv |-> NoChunk]

\* for (i ...) if (device_list[i].handle == handle) { splice(i, 1); break; }
remove_by_handle(device_list, handle) ==
    IF \E i \in 1 .. Len(device_list) : device_list[i].handle = handle
    THEN LET i == CHOOSE j \in 1 .. Len(device_list) :
                    /\ device_list[j].handle = handle
                    /\ \A k \in 1 .. j - 1 : device_list[k].handle # handle
         IN SubSeq(device_list, 1, i - 1) \o SubSeq(device_list, i + 1, Len(device_list))
    ELSE device_list

\* one run of recursively_get_device_list: it returns after one frame without
\* calling itself again, so after a frame the promise is never resolved
recursively_get_device_list(c, data) ==
    /\ calls[c].pc = "receive"
    /\ data \in ReceiveResults
    /\ LET call == calls[c]
       IN IF data.kind = "throw"
          THEN /\ calls' = [calls EXCEPT ![c].pc = "thrown"]
               /\ settled' = NotSettled
               /\ UNCHANGED _devices
          ELSE IF data.kind = "number"
          THEN /\ _devices' = splice_and_push(call.device_list)
               /\ calls' = [calls EXCEPT ![c] = resolve(destroy(call))]
               /\ settled' = Settled(c, List(call.device_list))
          ELSE IF data.message = MESSAGE_DEVICE_ADD
          THEN /\ _devices' = IF data.info # NoDevice
                              THEN Append(_devices, data.info) ELSE _devices
               /\ calls' = [calls EXCEPT ![c].pc = "stalled"]
               /\ settled' = NotSettled
          ELSE IF data.message = MESSAGE_DEVICE_REMOVE
          THEN /\ calls' = [calls EXCEPT ![c] =
                      [call EXCEPT !.pc = "stalled",
                                   !.device_list = remove_by_handle(@, data.handle)]]
               /\ settled' = NotSettled
               /\ UNCHANGED _devices
          ELSE /\ calls' = [calls EXCEPT ![c].pc = "stalled"]
               /\ settled' = NotSettled
               /\ UNCHANGED _devices
    /\ wire' = NoWrite
    /\ exchanged' = Received(c, data)
    /\ UNCHANGED <<_use_tag, _proto_version>>
    /\ Quiet

\* ------------------------------------------------------- the state machine
EmptyMap == [x \in {} |-> [callback |-> "", user_data |-> ""]]

\* the module's state as loaded
Loaded ==
    /\ _listener_map = EmptyMap
    /\ _devices = <<>>
    /\ _watching = FALSE
    /\ _use_tag = 0
    /\ _proto_version = 1
    /\ next_handle = 1
    /\ calls = [c \in CallIds |-> IdleCall]
    /\ delivered = <<>>
    /\ last = NoOp
    /\ wire = NoWrite
    /\ exchanged = NoExchange
    /\ settled = NotSettled
    /\ added = [h \in Handles |-> <<>>]

\* the daemon answers freely: what is attached at it is not followed
Init ==
    /\ Loaded
    /\ daemon = [plist |-> TRUE, attached |-> <<>>]
    /\ returned = Untracked
    /\ parsed = NotParsed

\* the steps of the listing calls in C
Listing(C) ==
    \/ \E c \in C : usbmuxd_get_device_list(c)
    \/ \E c \in C : connect_error(c)
    \/ \E c \in C : connect_and_list_devices(c)
    \/ \E c \in C, ok \in BOOLEAN : header_sent(c, ok)
    \/ \E c \in C, ok \in BOOLEAN : payload_sent(c, ok)
    \/ \E c \in C, answer \in ListDevicesAnswers : on_data_received(c, answer)
    \/ \E c \in C, data \in ReceiveResults : recursively_get_device_list(c, data)

Subscribing ==
    \/ \E s \in Subscribers : usbmuxd_events_subscribe(s[1], s[2])
    \/ \E context \in Handles : usbmuxd_events_unsubscribe(context)

\* a client that subscribes, unsubscribes and lists, one listing at a time
Next == Subscribing \/ Listing({"c1"})

Spec == Init /\ [][Next]_vars

\* a client whose listing calls overlap
NextConcurrent == Listing(CallIds)

SpecConcurrent == Init /\ [][NextConcurrent]_vars

\* A daemon with no add/remove activity: it speaks the plist protocol or it
\* does not, and the same devices stay attached throughout.
SteadyInit ==
    /\ Loaded
    /\ daemon \in [plist : BOOLEAN, attached : SeqsUpTo(PlistRecords, MaxList)]
    /\ returned = Pending
    /\ parsed = NotParsed

\* its answer to the request of call c, or the bare resolve() of socket_send_data
SteadyAnswers(c) ==
    IF calls[c].op = "ListDevices"
    THEN {Void} \cup (IF daemon.plist THEN {Plist(TRUE, daemon.attached)}
                                      ELSE {Num(RESULT_BADVERSION)})
    ELSE {Void}

\* what a receive on the listen session of call c yields: each call runs
\* recursively_get_device_list once, so it is the first frame of the session,
\* the announcement of the first attached device, or the timeout when none is
SteadyFrames(c) ==
    {Throws} \cup (IF daemon.attached = <<>>
                   THEN {TimedOut}
                   ELSE {Frame(MESSAGE_DEVICE_ADD,
                               device_info_from_plist(daemon.attached[1]), 0)})

\* listing calls, overlapping or not, against the steady daemon
NextSteady ==
    \/ \E c \in CallIds : usbmuxd_get_device_list(c)
    \/ \E c \in CallIds : connect_error(c)
    \/ \E c \in CallIds : connect_and_list_devices(c)
    \/ \E c \in CallIds, ok \in BOOLEAN : header_sent(c, ok)
    \/ \E c \in CallIds, ok \in BOOLEAN : payload_sent(c, ok)
    \/ \E c \in CallIds : \E answer \in SteadyAnswers(c) : on_data_received(c, answer)
    \/ \E c \in CallIds : \E data \in SteadyFrames(c) : recursively_get_device_list(c, data)

SpecSteady == SteadyInit /\ [][NextSteady]_vars

\* The standing listen session of the event registry starts once a subscriber
\* exists; starting it again is a no-op. Nothing in the source sets _watching.
start_listening ==
    /\ DOMAIN _listener_map # {}
    /\ ~_watching
    /\ _watching' = TRUE
    /\ delivered' = <<>>
    /\ last' = NoOp
    /\ NoSocketStep
    /\ UNCHANGED <<_listener_map, _devices, _use_tag, _proto_version, next_handle,
                   calls, added>>

\* the same client with the listen session of the registry
NextLive == Next \/ start_listening

SpecLive == Init /\ [][NextLive]_vars

\* ------------------------------------------------------ lookup and tunnel
DEVICE_LOOKUP_USBMUX == 2
DEVICE_LOOKUP_NETWORK == 4
DEVICE_LOOKUP_PREFER_NETWORK == 8

\* options: 0, or values of usbmux_lookup_options or'ed
LookupOptions ==
    {0, DEVICE_LOOKUP_USBMUX, DEVICE_LOOKUP_USBMUX + DEVICE_LOOKUP_NETWORK,
     DEVICE_LOOKUP_USBMUX + DEVICE_LOOKUP_NETWORK + DEVICE_LOOKUP_PREFER_NETWORK}

\* the identifiers looked up: udidA is the serial of the devices the daemon
\* describes, udidB that of none
Udids == {"udidA", "udidB"}

\* the device handles and ports a tunnel is asked for
TunnelHandles == {1, 2, 3}
TcpPorts == {22, 62078}

\* the result code the daemon holds for a CONNECT to a handle
daemon_connect_result(handle) ==
    CASE handle = 2 -> RESULT_CONNREFUSED
      [] handle = 3 -> RESULT_BADDEV
      [] OTHER -> RESULT_OK

\* the errno values of a refused connection and of an unknown device
ECONNREFUSED == 111
ENODEV == 19

\* const _sfd_map = new Map(): nothing in the source adds to it
_sfd_map == [fd \in {} |-> "socket"]

\* throw new Error(): the call returns nothing
Threw(op, h, udid) == [op |-> op, h |-> h, udid |-> udid, ret |-> 0, threw |-> TRUE]

\* a call that only throws touches no state
NothingTouched ==
    /\ delivered' = <<>>
    /\ NoSocketStep
    /\ UNCHANGED <<_listener_map, _devices, _watching, _use_tag, _proto_version,
                   next_handle, calls, added>>

usbmuxd_get_device_by_udid(udid) ==
    /\ last' = Threw("usbmuxd_get_device_by_udid", 0, udid)
    /\ NothingTouched

usbmuxd_get_device(udid, options) ==
    /\ last' = Threw("usbmuxd_get_device", 0, udid)
    /\ NothingTouched

usbmuxd_connect(handle, tcp_port) ==
    /\ last' = Threw("usbmuxd_connect", handle, "")
    /\ NothingTouched

\* a client that lists, looks devices up and asks for tunnels
NextLookup ==
    \/ Listing({"c1"})
    \/ \E udid \in Udids : usbmuxd_get_device_by_udid(udid)
    \/ \E udid \in Udids, options \in LookupOptions : usbmuxd_get_device(udid, options)
    \/ \E handle \in TunnelHandles, tcp_port \in TcpPorts : usbmuxd_connect(handle, tcp_port)

SpecLookup == Init /\ [][NextLookup]_vars

\* ------------------------------------------ device_info_from_plist alone
\* the values a property of a device record may have: of the type the function
\* expects, of another type, NaN, or not there at all
DeviceIDs == {PlNumber(1), PlNumber(2), PlNaN, PlString("1"), PlAbsent}
ProductIDs == {PlNumber(7), PlNaN, PlString("7"), PlAbsent}
SerialNumbers == {PlString("udidA"), PlNumber(5), PlAbsent}
ConnectionTypes == {PlString("USB"), PlString("Network"), PlString("Wifi"), PlAbsent}
NetworkAddresses == {PlData("addr"), PlString("addr"), PlAbsent}

PlistObjects ==
    [DeviceID : DeviceIDs, ProductID : ProductIDs, SerialNumber : SerialNumbers,
     ConnectionType : ConnectionTypes, NetworkAddress : NetworkAddresses]

PlistInit ==
    /\ Loaded
    /\ daemon = [plist |-> TRUE, attached |-> <<>>]
    /\ returned = Untracked
    /\ parsed \in [props : PlistObjects, returned : {FALSE}, undefined : {FALSE},
                    device_info : {NoDevice}]

\* const device_info = device_info_from_plist(plist_devrecord)
plist_devrecord_parsed ==
    /\ ~parsed.returned
    /\ LET device_info == device_info_from_plist(parsed.props)
       IN parsed' = [parsed EXCEPT !.returned = TRUE,
                                   !.undefined = (device_info = NoDevice),
                                   !.device_info = device_info]
    /\ UNCHANGED <<_listener_map, _devices, _watching, _use_tag, _proto_version,
                   next_handle, calls, delivered, last, wire, exchanged, settled,
                   added, daemon, returned>>

NextPlist == plist_devrecord_parsed

SpecPlist == PlistInit /\ [][NextPlist]_vars

\* -------------------------------------------------------------- properties
Range(q) == {q[i] : i \in DOMAIN q}

C3_ListenEstablished ==
    (last.op = "subscribe" /\ DOMAIN _listener_map # {}) => _watching

\* C4: a subscribe made while the listen session is active invokes the new
\* callback, and no other, once per device of the directory, in directory
\* order, with an ADD event; it leaves the directory and the other
\* registrations as they were.
C4_SubscribeReplaysAdds ==
    [][(last'.op = "subscribe" /\ _watching) =>
          /\ delivered' =
                [i \in 1 .. Len(_devices) |->
                    [cb |-> _listener_map'[last'.h].callback,
                     event |-> UE_DEVICE_ADD,
                     device |-> _devices[i],
                     user_data |-> _listener_map'[last'.h].user_data]]
          /\ _devices' = _devices
          /\ last'.h \notin DOMAIN _listener_map
          /\ \A h \in DOMAIN _listener_map : _listener_map'[h] = _listener_map[h]
      ]_vars

\* C4 happens: a second subscriber arrives while the session is active and two
\* devices are known
C4_Witness ==
    /\ last.op = "subscribe"
    /\ _watching
    /\ Len(delivered) = 2
    /\ Cardinality(DOMAIN _listener_map) = 2

\* C5: unsubscribing a registered handle invokes its callback, and no other,
\* once per device of the directory with a REMOVE event, erases that
\* registration only, returns 0 and leaves the directory alone; a handle once
\* erased stays erased, so unsubscribing it again fails.
C5_UnsubscribeReplaysRemoves ==
    [][\A h \in Handles :
          /\ (last'.op = "unsubscribe" /\ last'.h = h /\ h \in DOMAIN _listener_map) =>
                /\ Len(delivered') = Len(_devices)
                /\ \A i \in DOMAIN delivered' :
                      /\ delivered'[i].cb = _listener_map[h].callback
                      /\ delivered'[i].event = UE_DEVICE_REMOVE
                      /\ delivered'[i].device = _devices[i]
                /\ last'.ret = 0
                /\ DOMAIN _listener_map' = DOMAIN _listener_map \ {h}
                /\ \A k \in DOMAIN _listener_map' : _listener_map'[k] = _listener_map[k]
                /\ _devices' = _devices
          /\ (h < next_handle /\ h \notin DOMAIN _listener_map) =>
                /\ h \notin DOMAIN _listener_map'
                /\ (last'.op = "unsubscribe" /\ last'.h = h) => last'.ret < 0
      ]_vars

\* C5 happens: a subscriber leaves while two devices are known and another
\* subscriber stays
C5_Witness ==
    /\ last.op = "unsubscribe"
    /\ last.ret = 0
    /\ Len(delivered) = 2
    /\ DOMAIN _listener_map # {}

\* C6: unsubscribing a handle that is not registered returns -EINVAL, invokes
\* no callback and leaves the registry, the directory and the protocol
\* version as they were.
C6_UnknownHandleRejected ==
    [][\A h \in Handles :
          (last'.op = "unsubscribe" /\ last'.h = h /\ h \notin DOMAIN _listener_map) =>
              /\ last'.ret = -EINVAL
              /\ delivered' = <<>>
              /\ _listener_map' = _listener_map
              /\ _devices' = _devices
              /\ _proto_version' = _proto_version
      ]_vars

\* C6 happens: an unknown handle is unsubscribed while a subscriber and a
\* device exist
C6_Witness ==
    /\ last.op = "unsubscribe"
    /\ last.ret = -EINVAL
    /\ DOMAIN _listener_map # {}
    /\ _devices # <<>>

C8_VersionDowngradeSticky ==
    /\ _proto_version = 1
    /\ [][/\ _proto_version' # _proto_version =>
                /\ _proto_version = 1
                /\ _proto_version' = 0
                /\ exchanged'.kind = "number"
                /\ exchanged'.code = RESULT_BADVERSION
          /\ _proto_version = 0 => _proto_version' = 0
         ]_vars

\* C8 happens: after the downgrade a later listing ran to its end
C8_Witness ==
    /\ _proto_version = 0
    /\ settled.value.kind = "list"

C10_FailureSurfaced ==
    (/\ exchanged.kind = "number"
     /\ exchanged.code \notin {RESULT_OK, RESULT_BADVERSION})
        => settled = Settled(exchanged.call, Code(exchanged.code))

C12_ListingResolves ==
    \A c \in CallIds :
        calls[c].pc \notin {"idle", "resolved"} => ENABLED Listing({c})

\* C13: when a listing call resolves with a device list, _devices holds
\* exactly the records of that list, in the same order, and nothing else.
C13_DirectoryReplaced ==
    settled.value.kind = "list" => _devices = settled.value.list

\* C13 happens: a call resolves with one record after the other call's
\* listing had resolved before it
C13_Witness ==
    /\ settled.value.kind = "list"
    /\ Len(settled.value.list) = 1
    /\ _devices = settled.value.list
    /\ \E c \in CallIds :
          /\ c # settled.call
          /\ calls[c].pc = "resolved"
          /\ calls[c].op = "ListDevices"
          /\ calls[c].sfd = "destroyed"

C16_ConnectFailureFailsFast ==
    [][\A c \in CallIds :
          /\ (exchanged'.call = c /\ exchanged'.kind = "error") =>
                /\ settled' = Settled(c, Code(-ENOENT))
                /\ calls'[c].pc = "resolved"
                /\ calls'[c].sfd = "failed"
                /\ wire' = NoWrite
                /\ _use_tag' = _use_tag
                /\ _devices' = _devices
                /\ _proto_version' = _proto_version
                /\ _listener_map' = _listener_map
          /\ (calls[c].pc = "resolved" /\ calls'[c] # calls[c]) =>
                calls'[c] = connect_usbmuxd_socket(IdleCall)
      ]_vars

\* C16 happens: connecting failed while a device and a subscriber were known,
\* and the call resolved with -ENOENT
C16_Witness ==
    /\ exchanged.kind = "error"
    /\ settled = Settled("c1", Code(-ENOENT))
    /\ _devices # <<>>
    /\ DOMAIN _listener_map # {}

\* C17: a lookup by identifier, usbmuxd_get_device_by_udid or
\* usbmuxd_get_device, that finds no device of that identifier in the
\* directory returns 0: it does not throw and returns no other value.
C17_LookupNotFound ==
    (/\ last.op \in {"usbmuxd_get_device_by_udid", "usbmuxd_get_device"}
     /\ \A i \in DOMAIN _devices : _devices[i].udid # last.udid)
        => (~last.threw /\ last.ret = 0)

\* C18: usbmuxd_connect to a handle for which the daemon answers CONNREFUSED
\* returns the negative errno of a refused connection and leaves no session
\* in _sfd_map; for a handle answered BADDEV it returns the negative errno of
\* an unknown device; the two differ.
C18_ConnectErrorsDistinguished ==
    /\ (last.op = "usbmuxd_connect"
            /\ daemon_connect_result(last.h) = RESULT_CONNREFUSED)
          => (~last.threw /\ last.ret = -ECONNREFUSED /\ DOMAIN _sfd_map = {})
    /\ (last.op = "usbmuxd_connect"
            /\ daemon_connect_result(last.h) = RESULT_BADDEV)
          => (~last.threw /\ last.ret = -ENODEV)

C20_RetriedOnce ==
    [][\A c \in CallIds :
          (/\ calls[c].pc \notin {"idle", "resolved"}
           /\ calls'[c].pc = "connect"
           /\ calls'[c] # calls[c]) => calls[c].prev = "none"
      ]_vars

C22_TagsFresh ==
    [][/\ _use_tag' >= _use_tag
       /\ wire'.kind = "header" =>
             /\ _use_tag' > _use_tag
             /\ wire'.header.tag = _use_tag'
      ]_vars

\* C22 happens: a request is sent with the third tag or a later one while the
\* other call has a request of its own in flight
C22_Witness ==
    /\ wire.kind = "header"
    /\ wire.header.tag >= 3
    /\ \A c \in CallIds : calls[c].pc \in {"header", "payload", "response"}

\* a write of call c completes in this step and has failed
WriteFails(c) ==
    /\ calls[c].pc \in {"header", "payload"}
    /\ exchanged'.call = c
    /\ exchanged'.kind = "number"

\* C23 as stated: a write that fails, of the header or of the payload, resolves
\* the send with -EPERM, socket_send_data has destroyed the socket when it
\* resolves, and nothing is written in that step.
C23_FailedWriteDestroys ==
    [][\A c \in CallIds :
          WriteFails(c) =>
              /\ exchanged'.code = -EPERM
              /\ exchanged'.sfd = "destroyed"
              /\ wire' = NoWrite
      ]_vars

\* C23 amended: a write that fails resolves the send with -EPERM and nothing
\* more is written; socket_send_data destroys the socket itself when it is the
\* payload write that failed and leaves it open when it is the header write,
\* and then its caller destroys it on the numeric result, so that after the
\* step the socket is destroyed in both cases. A socket that has been
\* destroyed is the one a write goes to in no step.
C23_FailedWriteClosedByCaller ==
    [][\A c \in CallIds :
          /\ WriteFails(c) =>
                /\ exchanged'.code = -EPERM
                /\ wire' = NoWrite
                /\ exchanged'.sfd =
                      IF calls[c].pc = "payload" THEN "destroyed" ELSE "open"
                /\ \/ calls'[c].pc = "resolved" /\ calls'[c].sfd = "destroyed"
                   \/ calls'[c].pc = "connect" /\ calls'[c].prev = "destroyed"
          /\ (wire'.kind # "none" /\ calls'[c].pc \in {"header", "payload"}
                 /\ calls'[c] # calls[c])
                => calls'[c].sfd = "open"
      ]_vars

\* C23 happens: a header write has failed, socket_send_data left the socket
\* open, and the call has destroyed it and connects again
C23_Witness ==
    /\ exchanged.kind = "number"
    /\ exchanged.code = -EPERM
    /\ exchanged.sfd = "open"
    /\ calls[exchanged.call].pc = "connect"
    /\ calls[exchanged.call].prev = "destroyed"

\* C24: an exchange that a "data" event resolves has received a whole frame:
\* at least the 16 bytes of the header, and as many bytes as the header
\* declares.
C24_FullFrameCompletes ==
    exchanged.recv # NoChunk =>
        /\ exchanged.recv.byteLength >= header_byte_length
        /\ exchanged.recv.byteLength >= exchanged.recv.length

\* C25: the header written for a request has 16 plus the payload's byte
\* length in its length field, the protocol version of that moment in its
\* version field and the tag its caller drew in its tag field; a PLIST header
\* has version 1 and a payload, a LISTEN header has version 0 and none; the
\* payload written after the header is the payload the header was made for.
C25_HeaderFields ==
    [][\A c \in CallIds :
          /\ (wire'.kind = "header" /\ calls[c].pc = "connect"
                 /\ calls'[c].pc = "header") =>
                /\ wire'.header.length = 16 + byteLength(calls'[c].data)
                /\ wire'.header.version = _proto_version
                /\ wire'.header.version = _proto_version'
                /\ wire'.header.tag = _use_tag'
                /\ wire'.header.message \in {MESSAGE_PLIST, MESSAGE_LISTEN}
                /\ wire'.header.message = MESSAGE_PLIST =>
                      wire'.header.version = 1 /\ wire'.header.length > 16
                /\ wire'.header.message = MESSAGE_LISTEN =>
                      wire'.header.version = 0 /\ wire'.header.length = 16
          /\ (wire'.kind = "payload" /\ calls[c].pc = "header"
                 /\ calls'[c].pc = "payload") =>
                /\ wire'.bytes = byteLength(calls[c].data)
                /\ calls'[c].data = calls[c].data
      ]_vars

\* C25 happens: the payload of a PLIST request is written right after its
\* header, which declared 16 bytes more than the payload has
C25_Witness ==
    \E c \in CallIds :
        /\ calls[c].pc = "payload"
        /\ calls[c].op = "ListDevices"
        /\ wire.kind = "payload"
        /\ wire.bytes = byteLength(plist_build(create_plist_message("ListDevices")))
        /\ _use_tag >= 2

\* C26: a call holds no open socket once no step of it is left to run
\* (resolved, or ended by a throw or by a drain that returned), and the socket
\* it held before a retry was destroyed before the next one was opened.
C26_SessionsClosed ==
    \A c \in CallIds :
        /\ calls[c].pc \in {"idle", "resolved", "thrown", "stalled"}
              => calls[c].sfd \in {"none", "failed", "destroyed"}
        /\ calls[c].prev \in {"none", "destroyed"}

\* C27: device_info_from_plist returns a record, and not undefined, exactly
\* when DeviceID and ProductID are numbers (NaN is none), SerialNumber is a
\* string, ConnectionType is "USB" or "Network" and, for "Network",
\* NetworkAddress holds bytes; the record it returns has DeviceID as handle and
\* SerialNumber as udid, and as conn_data no bytes for "USB" and the bytes of
\* NetworkAddress for "Network".
C27_RecordAccepted ==
    parsed.returned =>
        LET p == parsed.props
            d == parsed.device_info
            number(x) == x.t = "number" /\ x.s # "NaN"
            wanted ==
                /\ number(p.DeviceID)
                /\ number(p.ProductID)
                /\ p.SerialNumber.t = "string"
                /\ \/ p.ConnectionType = PlString("USB")
                   \/ /\ p.ConnectionType = PlString("Network")
                      /\ p.NetworkAddress.t = "data"
        IN /\ parsed.undefined <=> ~wanted
           /\ ~parsed.undefined =>
                 /\ d.handle = p.DeviceID.n
                 /\ d.udid = p.SerialNumber.s
                 /\ p.ConnectionType = PlString("USB") => d.conn_data = ""
                 /\ p.ConnectionType = PlString("Network") =>
                       d.conn_data = p.NetworkAddress.s

\* C27 happens: a Network record with its address has been accepted
C27_Witness ==
    /\ parsed.returned
    /\ ~parsed.undefined
    /\ parsed.props.ConnectionType = PlString("Network")
    /\ parsed.device_info.handle = 2
    /\ parsed.device_info.conn_data = "addr"

====
